---- MODULE Spec2Model ----
(***************************************************************************)
(* A model of the transfer engine of blazer (package b2): the Writer of    *)
(* src/b2/writer.go with its upload workers, the large-file bookkeeping of *)
(* src/base/base.go, the in-memory service of src/b2/buffer.go that stands *)
(* behind them, and the Reader pipeline.                                   *)
(*                                                                         *)
(* One caller drives the Writer (Write*, then Close, Close); the upload    *)
(* workers are goroutines that interleave with it.  Every RPC may fail     *)
(* while the fault budget lasts, and the caller's context may be cancelled *)
(* at any time.                                                            *)
(***************************************************************************)
EXTENDS Integers, Sequences, FiniteSets, Bags, TLC

\* ------------------------------------------------------------------ bounds
MaxLen == 3
MaxChunk == 2
MaxWorkers == 2
MaxFaults == 2
MaxCloses == 2
MaxReadChunk == 2
MaxDownloads == 2

MaxParts == MaxLen

\* ----------------------------------------------------------------- helpers
Min(a, b) == IF a < b THEN a ELSE b
Take(s, n) == SubSeq(s, 1, Min(n, Len(s)))
Drop(s, n) == SubSeq(s, Min(n, Len(s)) + 1, Len(s))
CeilDiv(a, b) == (a + b - 1) \div b

\* The inputs: a stream whose bytes all differ, so that any loss, repetition
\* or reordering shows, and a stream of equal bytes, whose chunks all have the
\* same digest.
Ramp == [i \in 1..MaxLen |-> i]
Zeros == [i \in 1..MaxLen |-> 0]
Inputs == {Ramp, Zeros}

\* The hex SHA-1 of a byte string: an injective digest.
SHA1(s) == <<"sha1", s>>

\* Errors are values <<origin, part>>; Nil is Go's nil error.
Nil == <<"nil", 0>>
Canceled == <<"context canceled", 0>>
ErrOf(method, n) == <<method, n>>

NoChunk == [id |-> 0, size |-> 0, sha1 |-> SHA1(<<>>), buf |-> <<>>, rpos |-> 0]
\* Absent values: no byte is negative, and no digest is of this form.
NoPart == <<-1>>
NoHash == <<"none", <<>>>>
NoFile == <<-1>>
NoSeen == [i \in 1..MaxLen |-> NoHash]

VARIABLES
  B,           \* the caller's input, handed to Write piece by piece
  csize,       \* Writer.csize
  conc,        \* Writer.ConcurrentUploads as configured
  seen,        \* Writer.seen: the SHA-1 of each part of the unfinished large file being resumed
  pc,          \* where the caller is
  off,         \* bytes of B passed to Write so far
  pend,        \* p of the Write in progress that is not yet consumed
  wacc,        \* bytes of p the Write in progress has accepted so far
  wret,        \* what the last Write returned: [n, err]
  closeRets,   \* what each Close returned, in order
  cbuf,        \* Writer.cbuf
  chsh,        \* Writer.chsh: the bytes hashed into the running SHA-1
  cidx,        \* Writer.cidx
  onceDone,    \* Writer.once has run
  started,     \* Writer.file is set (start-large-file succeeded)
  readyClosed, \* Writer.ready is closed
  err,         \* Writer.err, the first-error latch
  doneLatch,   \* Writer.done has run
  pool,        \* the worker goroutines: a bag of [pc, c], position and chunk held
  hashes,      \* base.LargeFile.hashes: part number -> SHA-1
  parts,       \* the service's parts of the large file: part number -> bytes
  commits,     \* how often each part number was committed
  attempts,    \* upload-part RPCs issued, per part number
  stored,      \* the committed object's content, or NoFile
  sentHashes,  \* the SHA-1 array of the last finish-large-file request
  rpc,         \* RPCs the caller's goroutine issued, per method
  faults,      \* injected RPC failures so far
  hard,        \* a failure that is not a transient upload error was injected
  transient,   \* a transient upload error (Retry, AttemptNewUpload) was injected
  ctxDone,     \* the context passed to NewWriter is cancelled
  rd,          \* the Reader
  cin,         \* the error handed to the classifier
  cout,        \* what base.Action and base.Backoff returned for it
  bpc,         \* where the wrapped call (withBackoff around withReauth) is
  bctx,        \* the wrapped call's context is done
  bfired,      \* the timer of the current time.After has fired
  bbackoff,    \* withBackoff's local backoff of the wrapped call, in microseconds
  abackoff,    \* the same of authorizeAccount's own withBackoff
  bwaits,      \* the waits of the wrapped call's withBackoff: [d, local], in order
  battempts,   \* attempts of the wrapped RPC
  bauths,      \* authorize-account RPCs issued
  bfaults,     \* failures injected into the wrapped call and its authorize
  bclasses,    \* the actions of the errors the wrapped RPC has returned
  blast,       \* the error f returned last to withBackoff
  bret,        \* what the wrapper returned
  lvl,         \* the withReauth invocation in progress
  rret,        \* what the last withReauth invocation did and returned
  cred,        \* beRoot's account and key, and the authorize-account calls made
  bk,          \* a bucket on the service and the handles on it
  ctr,         \* a Counter, the clock and what was counted
  mon,         \* a MethodInfo, the calls added to it and what it reported
  grp          \* the savers of a Group and the atomicInfo in the bucket

cfgv == <<B, csize, conc, seen>>
callv == <<pc, off, pend, wacc, wret, closeRets>>
wrv == <<cbuf, chsh, cidx, onceDone, started, readyClosed, err, doneLatch>>
workv == <<pool>>
lfv == <<hashes, parts, commits, attempts, stored, sentHashes>>
envv == <<rpc, faults, hard, transient, ctxDone>>
clv == <<cin, cout>>
bev == <<bpc, bctx, bfired, bbackoff, abackoff, bwaits, battempts, bauths, bfaults, bclasses,
         blast, bret, lvl, rret, cred>>
yv == <<mon, grp>>
xv == <<bk, ctr, yv>>
vars == <<cfgv, callv, wrv, workv, lfv, envv, rd, clv, bev, xv>>

\* ------------------------------------------------------------ environment
\* What an RPC issued now can come back with: the context's error once the
\* context is cancelled, otherwise success or, while the fault budget lasts,
\* one of the failures the method can show.
RPCOutcomes(kinds) ==
  IF ctxDone THEN {"canceled"}
  ELSE {"ok"} \cup (IF faults < MaxFaults THEN kinds ELSE {})

ErrFor(out, method, n) == IF out = "canceled" THEN Canceled ELSE ErrOf(method, n)

Account(out) ==
  /\ faults' = IF out \in {"ok", "canceled"} THEN faults ELSE faults + 1
  /\ hard' = (hard \/ out \in {"fail", "punt"})
  /\ transient' = (transient \/ out \in {"retry", "reupload"})

NoFaults == UNCHANGED <<faults, hard, transient>>

\* ----------------------------------------------------------------- Writer
\* Writer.setErr: the latch takes the first error only.
setErrOverwrite(cur, e) == e
setErr(cur, e) == IF cur = Nil THEN e ELSE cur

\* Writer.Write, the test that p fits in the current buffer without filling it.
FitsOrFills(p, left) == Len(p) <= left
Fits(p, left) == Len(p) < left

\* Writer.Write: p[:left] goes into the current buffer, p[left:] to the
\* recursive call.
FrontAll(p, left) == p
Front(p, left) == Take(p, left)
RestSkipsOne(p, left) == Drop(p, left + 1)
Rest(p, left) == Drop(p, left)

\* sendChunk: w.cidx++.
NextIdxStuck(i) == i
NextIdx(i) == i + 1

\* Writer.ConcurrentUploads as used: values below 1 count as 1.
UploadsOneMore == (IF conc < 1 THEN 1 ELSE conc) + 1
Uploads == IF conc < 1 THEN 1 ELSE conc

\* The chunk sendChunk cuts from the current buffer.
MkChunk == [id |-> cidx + 1, size |-> Len(cbuf), sha1 |-> SHA1(chsh), buf |-> cbuf, rpos |-> 0]

\* The worker goroutines run the same code and have no identity: the pool is
\* the bag of their states.
W(p, c) == [pc |-> p, c |-> c]
At(S) == {ws \in DOMAIN pool : ws.pc \in S}
CountAt(S) == BagCardinality([ws \in At(S) |-> pool[ws]])
Move(ws, to) == pool' = (pool (-) SetToBag({ws})) (+) SetToBag({to})

\* sync.WaitGroup's counter: the workers past wg.Add(1) and before wg.Done().
wgCount == CountAt({"recv", "upload", "reurl"})

WriteReturn(n, e) ==
  /\ pc' = "ready"
  /\ wret' = [n |-> n, err |-> e]
  /\ pend' = <<>>
  /\ wacc' = 0

CloseReturn(e) ==
  /\ pc' = "ready"
  /\ closeRets' = Append(closeRets, e)

\* Resume: an unfinished large file of this name was found and its parts
\* listed, so that no new large file is started.
Resuming == \E i \in 1..MaxParts : seen[i] # NoHash

\* The body of Writer.Write(p), up to its return or to the hand-off of a full
\* buffer in sendChunk; acc is what the enclosing calls have accepted.
WriteBody(p, acc) ==
  IF err # Nil
  THEN /\ WriteReturn(acc, err)
       /\ UNCHANGED <<cbuf, chsh, onceDone, started, err, pool, rpc>>
       /\ NoFaults
  ELSE LET left == csize - Len(cbuf) IN
       IF Fits(p, left)
       THEN /\ cbuf' = cbuf \o p
            /\ chsh' = chsh \o p
            /\ WriteReturn(acc + Len(p), Nil)
            /\ UNCHANGED <<onceDone, started, err, pool, rpc>>
            /\ NoFaults
       ELSE /\ cbuf' = cbuf \o Front(p, left)
            /\ chsh' = chsh \o Front(p, left)
            /\ IF onceDone
               THEN /\ pc' = "w_send"
                    /\ pend' = Rest(p, left)
                    /\ wacc' = acc + left
                    /\ UNCHANGED <<wret, onceDone, started, err, pool, rpc>>
                    /\ NoFaults
               ELSE \E out \in RPCOutcomes({"fail"}) :
                    /\ onceDone' = TRUE
                    /\ rpc' = [rpc EXCEPT !.start = @ + (IF Resuming THEN 0 ELSE 1)]
                    /\ Account(out)
                    /\ IF out = "ok"
                       THEN /\ started' = TRUE
                            /\ pool' = [ws \in {W("geturl", NoChunk)} |-> Uploads]
                            /\ pc' = "w_send"
                            /\ pend' = Rest(p, left)
                            /\ wacc' = acc + left
                            /\ UNCHANGED <<wret, err>>
                       ELSE /\ err' = setErr(err, ErrFor(out, "b2_start_large_file", 0))
                            /\ WriteReturn(acc + left, ErrFor(out, "b2_start_large_file", 0))
                            /\ UNCHANGED <<started, pool>>

\* The caller calls Write with the next n bytes of its input.
CallWrite(n) ==
  /\ pc = "ready"
  /\ ~doneLatch
  /\ off + n <= Len(B)
  /\ off' = off + n
  /\ WriteBody(SubSeq(B, off + 1, off + n), 0)
  /\ UNCHANGED <<xv, cfgv, closeRets, cidx, readyClosed, doneLatch, lfv, ctxDone, rd, clv, bev>>

\* The recursive Write(p[left:]) after a hand-off.
WriteCont ==
  /\ pc = "w_top"
  /\ WriteBody(pend, wacc)
  /\ UNCHANGED <<xv, cfgv, off, closeRets, cidx, readyClosed, doneLatch, lfv, ctxDone, rd, clv, bev>>

\* w.ready <- chunk meets a worker's <-w.ready; sendChunk then starts a new
\* buffer, and Close goes on to close(w.ready).
Handoff ==
  /\ pc \in {"w_send", "c_send"}
  /\ ~readyClosed
  /\ W("recv", NoChunk) \in DOMAIN pool
  /\ Move(W("recv", NoChunk), W("upload", MkChunk))
  /\ cidx' = NextIdx(cidx)
  /\ cbuf' = <<>>
  /\ chsh' = <<>>
  /\ pc' = IF pc = "w_send" THEN "w_top" ELSE "c_wait"
  /\ readyClosed' = (pc = "c_send")
  /\ UNCHANGED <<xv, cfgv, off, pend, wacc, wret, closeRets, onceDone, started, err, doneLatch, lfv, envv, rd, clv, bev>>

\* -------------------------------------------------------- upload workers
\* Writer.thread, before its loop: fetch a part-upload endpoint; only then
\* wg.Add(1).
WorkerGetURL ==
  /\ W("geturl", NoChunk) \in DOMAIN pool
  /\ \E out \in RPCOutcomes({"fail"}) :
       /\ Account(out)
       /\ IF out = "ok"
          THEN /\ Move(W("geturl", NoChunk), W("recv", NoChunk))
               /\ UNCHANGED err
          ELSE /\ Move(W("geturl", NoChunk), W("exit", NoChunk))
               /\ err' = setErr(err, ErrFor(out, "b2_get_upload_part_url", 0))
  /\ UNCHANGED <<xv, cfgv, callv, cbuf, chsh, cidx, onceDone, started, readyClosed, doneLatch, lfv, rpc, ctxDone, rd, clv, bev>>

\* chunk, ok := <-w.ready on the closed channel: the worker returns.
WorkerRecvClosed ==
  /\ readyClosed
  /\ W("recv", NoChunk) \in DOMAIN pool
  /\ Move(W("recv", NoChunk), W("exit", NoChunk))
  /\ UNCHANGED <<xv, cfgv, callv, wrv, lfv, envv, rd, clv, bev>>

\* Where a failed attempt can leave the chunk's reader: anywhere from where
\* it stood to the end.
ReaderLeftAt(c) == {[c EXCEPT !.rpos = n] : n \in c.rpos..c.size}

\* r.Seek(0, 0) before the attempt is redone.
SeekNone(c) == c
SeekStart(c) == [c EXCEPT !.rpos = 0]

\* The retry of an attempt inside the backend wrapper's backoff loop streams
\* the chunk from its beginning.
WrapperRetry(c) == [c EXCEPT !.rpos = 0]

\* base.FileChunk.UploadPart on success, with the service of
\* testFileChunk.uploadPart behind it: the service keeps what the reader
\* yields under the part number; the client records the SHA-1 under it.
CommitPartInOrder(c) ==
  /\ parts' = [parts EXCEPT ![c.id] = Drop(c.buf, c.rpos)]
  /\ hashes' = [hashes EXCEPT ![Cardinality({i \in 1..MaxParts : hashes[i] # NoHash}) + 1] = c.sha1]
  /\ commits' = [commits EXCEPT ![c.id] = @ + 1]
CommitPart(c) ==
  /\ parts' = [parts EXCEPT ![c.id] = Drop(c.buf, c.rpos)]
  /\ hashes' = [hashes EXCEPT ![c.id] = c.sha1]
  /\ commits' = [commits EXCEPT ![c.id] = @ + 1]

\* Resume: a chunk whose SHA-1 is that of the part already held under its
\* number is not uploaded.
SkipsNever(c) == FALSE
Skips(c) == seen[c.id] # NoHash /\ seen[c.id] = c.sha1

\* fc.uploadPart(w.ctx, r, chunk.sha1, chunk.size, chunk.id) and what
\* Writer.thread does with its result; with Resume, a part already there is
\* skipped.
WorkerUpload ==
  \E ws \in At({"upload"}) :
  LET c == ws.c IN
  IF Skips(c)
  THEN /\ Move(ws, W("recv", NoChunk))
       /\ NoFaults
       /\ UNCHANGED <<xv, cfgv, callv, cbuf, chsh, cidx, onceDone, started, readyClosed, err, doneLatch, lfv, rpc, ctxDone, rd, clv, bev>>
  ELSE
  \E out \in RPCOutcomes({"retry", "reupload", "punt"}) :
     /\ Account(out)
     /\ attempts' = [attempts EXCEPT ![c.id] = @ + 1]
     /\ CASE out = "ok" ->
               /\ CommitPart(c)
               /\ Move(ws, W("recv", NoChunk))
               /\ UNCHANGED err
          [] out = "retry" ->
               /\ \E d \in ReaderLeftAt(c) : Move(ws, W("upload", WrapperRetry(d)))
               /\ UNCHANGED <<err, parts, hashes, commits>>
          [] out = "reupload" ->
               /\ \E d \in ReaderLeftAt(c) : Move(ws, W("reurl", d))
               /\ UNCHANGED <<err, parts, hashes, commits>>
          [] OTHER ->
               /\ err' = setErr(err, ErrFor(out, "b2_upload_part", c.id))
               /\ Move(ws, W("exit", NoChunk))
               /\ UNCHANGED <<parts, hashes, commits>>
     /\ UNCHANGED <<xv, cfgv, callv, cbuf, chsh, cidx, onceDone, started, readyClosed, doneLatch, stored, sentHashes, rpc, ctxDone, rd, clv, bev>>

\* After an AttemptNewUpload error: a new endpoint, the reader rewound, redo.
WorkerReURL ==
  \E ws \in At({"reurl"}) :
  \E out \in RPCOutcomes({"fail"}) :
     /\ Account(out)
     /\ IF out = "ok"
        THEN /\ Move(ws, W("upload", SeekStart(ws.c)))
             /\ UNCHANGED err
        ELSE /\ Move(ws, W("exit", NoChunk))
             /\ err' = setErr(err, ErrFor(out, "b2_get_upload_part_url", 0))
     /\ UNCHANGED <<xv, cfgv, callv, cbuf, chsh, cidx, onceDone, started, readyClosed, doneLatch, lfv, rpc, ctxDone, rd, clv, bev>>

\* ------------------------------------------------------------------ Close
\* sync.Once on Writer.done: the body of Close runs on the first call only.
DoneNeverSet == FALSE
DoneAlready == doneLatch

\* Close is called.  A later call returns its own fresh oerr; the first one
\* takes the simple path, hands off the last buffer, or closes the channel.
CallClose ==
  /\ pc = "ready"
  /\ Len(closeRets) < MaxCloses
  /\ IF DoneAlready
     THEN /\ CloseReturn(Nil)
          /\ UNCHANGED <<doneLatch, readyClosed>>
     ELSE /\ doneLatch' = TRUE
          /\ UNCHANGED closeRets
          /\ IF cidx = 0
             THEN pc' = "c_url" /\ UNCHANGED readyClosed
             ELSE IF Len(cbuf) > 0
                  THEN pc' = "c_send" /\ UNCHANGED readyClosed
                  ELSE pc' = "c_wait" /\ readyClosed' = TRUE
  /\ UNCHANGED <<xv, cfgv, off, pend, wacc, wret, cbuf, chsh, cidx, onceDone, started, err, workv, lfv, envv, rd, clv, bev>>

\* simpleWriteFile: getUploadURL, at first and after an AttemptNewUpload error.
CloseGetURL ==
  /\ pc = "c_url"
  /\ \E out \in RPCOutcomes({"fail"}) :
       /\ Account(out)
       /\ rpc' = [rpc EXCEPT !.url = @ + 1]
       /\ IF out = "ok"
          THEN pc' = "c_upload" /\ UNCHANGED closeRets
          ELSE CloseReturn(ErrFor(out, "b2_get_upload_url", 0))
  /\ UNCHANGED <<xv, cfgv, off, pend, wacc, wret, wrv, workv, lfv, ctxDone, rd, clv, bev>>

\* What an upload attempt that failed can have left in w.cbuf, which it reads
\* directly: any suffix.
DrainedTo(buf) == {Drop(buf, n) : n \in 0..Len(buf)}

\* simpleWriteFile: ue.uploadFile(w.ctx, w.cbuf, w.cbuf.Len(), ...), with the
\* service of testURL.uploadFile behind it.
CloseUpload ==
  /\ pc = "c_upload"
  /\ \E out \in RPCOutcomes({"reupload", "punt"}) :
       /\ Account(out)
       /\ rpc' = [rpc EXCEPT !.file = @ + 1]
       /\ CASE out = "ok" ->
                 /\ stored' = cbuf
                 /\ cbuf' = <<>>
                 /\ CloseReturn(Nil)
            [] out = "reupload" ->
                 /\ cbuf' \in DrainedTo(cbuf)
                 /\ pc' = "c_url"
                 /\ UNCHANGED <<stored, closeRets>>
            [] OTHER ->
                 /\ cbuf' \in DrainedTo(cbuf)
                 /\ CloseReturn(ErrFor(out, "b2_upload_file", 0))
                 /\ UNCHANGED stored
  /\ UNCHANGED <<xv, cfgv, off, pend, wacc, wret, chsh, cidx, onceDone, started, readyClosed, err, doneLatch, workv, hashes, parts, commits, attempts, sentHashes, ctxDone, rd, clv, bev>>

\* base.LargeFile.FinishLargeFile: the part numbers recorded, and the array
\* Hashes[k-1] = hashes[k] it sends.
Recorded == {i \in 1..MaxParts : hashes[i] # NoHash}
HashArray == [i \in 1..Cardinality(Recorded) |-> hashes[i]]

RECURSIVE Concat(_, _)
Concat(f, n) == IF n = 0 THEN <<>> ELSE Concat(f, n - 1) \o f[n]

\* testLargeFile.finishLargeFile: the object is the parts 1..len(parts) in
\* order.
Assemble == Concat(parts, Cardinality({i \in 1..MaxParts : parts[i] # NoPart}))

\* Close after close(w.ready): w.wg.Wait(), then finishLargeFile.  An index
\* beyond len(l.hashes) makes Hashes[k-1] = v panic before any request.
CloseFinish ==
  /\ pc = "c_wait"
  /\ wgCount = 0
  /\ IF Recorded # 1..Cardinality(Recorded)
     THEN /\ pc' = "panic"
          /\ UNCHANGED <<closeRets, stored, sentHashes, rpc>>
          /\ NoFaults
     ELSE \E out \in RPCOutcomes({"fail"}) :
          /\ Account(out)
          /\ rpc' = [rpc EXCEPT !.finish = @ + 1]
          /\ sentHashes' = HashArray
          /\ IF out = "ok"
             THEN stored' = Assemble /\ CloseReturn(Nil)
             ELSE CloseReturn(ErrFor(out, "b2_finish_large_file", 0)) /\ UNCHANGED stored
  /\ UNCHANGED <<xv, cfgv, off, pend, wacc, wret, wrv, workv, hashes, parts, commits, attempts, ctxDone, rd, clv, bev>>

\* The caller cancels the context it passed to NewWriter.
CancelCtx ==
  /\ ~ctxDone
  /\ closeRets = <<>>
  /\ ctxDone' = TRUE
  /\ UNCHANGED <<xv, cfgv, callv, wrv, workv, lfv, rpc, faults, hard, transient, rd, clv, bev>>

\* ----------------------------------------------------------------- Reader
ChunkIdx == 0..(MaxLen - 1)
NoReader == [open |-> FALSE, csize |-> 0, conc |-> 0, base |-> 0, len |-> -1, size |-> 0,
             next |-> 0, emit |-> 0,
             cur |-> 0, chunks |-> [i \in ChunkIdx |-> NoPart], inflight |-> {},
             out |-> <<>>, eof |-> FALSE]

\* mkRange: the Range header of a download of size bytes from offset; size 0
\* asks for everything from offset on, and no header for the whole object.
mkRange(offset, size) ==
  IF offset = 0 /\ size = 0 THEN [whole |-> TRUE, first |-> 0, last |-> -1]
  ELSE IF size = 0 THEN [whole |-> FALSE, first |-> offset, last |-> -1]
  ELSE [whole |-> FALSE, first |-> offset, last |-> offset + size - 1]

\* What the service returns for a Range header: the bytes first..last of the
\* object, as far as it has them.
Serve(r) ==
  IF r.whole THEN stored
  ELSE SubSeq(stored, r.first + 1, IF r.last < 0 THEN Len(stored) ELSE Min(r.last + 1, Len(stored)))

\* The ranged download of chunk i: chunk-size bytes from the chunk's offset,
\* shifted by the Reader's initial offset and clamped to the Reader's total.
RangeOf(i) == Serve(mkRange(rd.base + i * rd.csize, Min(rd.csize, rd.size - i * rd.csize)))

Buffered == {i \in ChunkIdx : rd.chunks[i] # NoPart}

\* Object.NewReader, with ChunkSize and ConcurrentDownloads set by the caller;
\* the size is that of the committed object.
NewReader(cs, k) ==
  /\ ~rd.open
  /\ pc = "ready"
  /\ closeRets # <<>>
  /\ stored # NoFile
  /\ rd' = [NoReader EXCEPT !.open = TRUE, !.csize = cs, !.conc = k, !.size = Len(stored)]
  /\ UNCHANGED <<xv, cfgv, callv, wrv, workv, lfv, envv, clv, bev>>

\* The total a range reader opened with offset o and length n emits from an
\* object of size S: n bytes, or what is left of the object when that is
\* less or n < 0.
RangeSizeToEnd(o, n, S) == IF o >= S THEN 0 ELSE S - o
RangeSize(o, n, S) ==
  IF o >= S THEN 0 ELSE IF n < 0 THEN S - o ELSE Min(n, S - o)

\* Object.NewRangeReader(offset o, length n) on a stored object.
NewRangeReader(cs, k, o, n) ==
  /\ ~rd.open
  /\ stored # NoFile
  /\ rd' = [NoReader EXCEPT !.open = TRUE, !.csize = cs, !.conc = k, !.base = o, !.len = n,
                            !.size = RangeSize(o, n, Len(stored))]
  /\ UNCHANGED <<xv, cfgv, callv, wrv, workv, lfv, envv, clv, bev>>

\* A worker may take a chunk index while fewer than ConcurrentDownloads
\* chunks are being downloaded or held.
SlotFreeAlways == TRUE
SlotFree == Cardinality(rd.inflight) + Cardinality(Buffered) < rd.conc

\* The dispatcher hands the next chunk index to an idle worker while a slot
\* is free.
ReaderDispatch ==
  /\ rd.open
  /\ rd.next * rd.csize < rd.size
  /\ SlotFree
  /\ rd' = [rd EXCEPT !.inflight = @ \cup {rd.next}, !.next = @ + 1]
  /\ UNCHANGED <<xv, cfgv, callv, wrv, workv, lfv, envv, clv, bev>>

\* A ranged download completes, in any order, and deposits its buffer.
ReaderComplete(i) ==
  /\ rd.open
  /\ i \in rd.inflight
  /\ rd' = [rd EXCEPT !.inflight = @ \ {i}, !.chunks[i] = RangeOf(i)]
  /\ UNCHANGED <<xv, cfgv, callv, wrv, workv, lfv, envv, clv, bev>>

\* The chunk Read copies from: the next one in offset order.
NextEmitLowestHeld ==
  IF rd.cur > 0 \/ Buffered = {} THEN rd.emit
  ELSE CHOOSE i \in Buffered : \A j \in Buffered : i <= j
NextEmit == rd.emit

\* Read(p) with len(p) = n: copy from the chunk next to emit, if it is there;
\* EOF once every chunk is emitted.
ReaderRead(n) ==
  /\ rd.open
  /\ ~rd.eof
  /\ IF rd.emit * rd.csize >= rd.size
     THEN rd' = [rd EXCEPT !.eof = TRUE]
     ELSE /\ rd.chunks[NextEmit] # NoPart
          /\ LET buf == rd.chunks[NextEmit]
                 m == Min(n, Len(buf) - rd.cur)
                 got == SubSeq(buf, rd.cur + 1, rd.cur + m)
             IN IF rd.cur + m = Len(buf)
                THEN rd' = [rd EXCEPT !.out = @ \o got, !.chunks[NextEmit] = NoPart,
                                      !.emit = NextEmit + 1, !.cur = 0]
                ELSE rd' = [rd EXCEPT !.out = @ \o got, !.cur = @ + m]
  /\ UNCHANGED <<xv, cfgv, callv, wrv, workv, lfv, envv, clv, bev>>

\* ------------------------------------------------------- error classifier
\* Errors as base.Action sees them: a b2err (st) with its method, HTTP code
\* and Retry-After seconds, or any other error value.
StructErr(m, c, r) == [st |-> TRUE, method |-> m, code |-> c, retry |-> r]
PlainErr(what) == [st |-> FALSE, method |-> what, code |-> 0, retry |-> 0]
BeNil == PlainErr("nil")
CtxErr == PlainErr("context canceled")
IOErr == PlainErr("unexpected EOF")

\* makeRequest: a failed connection comes back as a b2err with retry 1 and
\* neither method nor code.
TransportErr == StructErr("", 0, 1)

Methods == {"b2_authorize_account", "b2_upload_file", "b2_upload_part",
            "b2_create_bucket", "b2_list_buckets"}
UploadMethods == {"b2_upload_file", "b2_upload_part"}
Codes == {400, 401, 403, 408, 429, 499, 500, 501, 503, 599, 600}
MaxRetryAfter == 2

ErrInputs ==
  {StructErr(m, c, r) : m \in Methods, c \in Codes, r \in 0..MaxRetryAfter}
    \cup {TransportErr, BeNil, CtxErr, IOErr}

\* base.Action.
ActionPlainRetry(e) ==
  IF ~e.st THEN "Retry"
  ELSE IF e.retry > 0 THEN "Retry"
  ELSE IF e.code >= 500 /\ e.code < 600 /\ e.method \in UploadMethods THEN "AttemptNewUpload"
  ELSE IF e.code = 401
       THEN IF e.method = "b2_authorize_account" THEN "Punt"
            ELSE IF e.method \in UploadMethods THEN "AttemptNewUpload"
            ELSE "ReAuthenticate"
  ELSE IF e.code \in {429, 500, 503} THEN "Retry"
  ELSE "Punt"
ActionCodeFirst(e) ==
  IF ~e.st THEN "Punt"
  ELSE IF e.code >= 500 /\ e.code < 600 /\ e.method \in UploadMethods THEN "AttemptNewUpload"
  ELSE IF e.code = 401
       THEN IF e.method = "b2_authorize_account" THEN "Punt"
            ELSE IF e.method \in UploadMethods THEN "AttemptNewUpload"
            ELSE "ReAuthenticate"
  ELSE IF e.code \in {429, 500, 503} THEN "Retry"
  ELSE IF e.retry > 0 THEN "Retry"
  ELSE "Punt"
ActionNoUploadRule(e) ==
  IF ~e.st THEN "Punt"
  ELSE IF e.retry > 0 THEN "Retry"
  ELSE IF e.code = 401
       THEN IF e.method = "b2_authorize_account" THEN "Punt"
            ELSE IF e.method \in UploadMethods THEN "AttemptNewUpload"
            ELSE "ReAuthenticate"
  ELSE IF e.code \in {429, 500, 503} THEN "Retry"
  ELSE "Punt"
ActionReauthAny401(e) ==
  IF ~e.st THEN "Punt"
  ELSE IF e.retry > 0 THEN "Retry"
  ELSE IF e.code >= 500 /\ e.code < 600 /\ e.method \in UploadMethods THEN "AttemptNewUpload"
  ELSE IF e.code = 401 THEN "ReAuthenticate"
  ELSE IF e.code \in {429, 500, 503} THEN "Retry"
  ELSE "Punt"
Action(e) ==
  IF ~e.st THEN "Punt"
  ELSE IF e.retry > 0 THEN "Retry"
  ELSE IF e.code >= 500 /\ e.code < 600 /\ e.method \in UploadMethods THEN "AttemptNewUpload"
  ELSE IF e.code = 401
       THEN IF e.method = "b2_authorize_account" THEN "Punt"
            ELSE IF e.method \in UploadMethods THEN "AttemptNewUpload"
            ELSE "ReAuthenticate"
  ELSE IF e.code \in {429, 500, 503} THEN "Retry"
  ELSE "Punt"

\* time.Second, in microseconds, the unit of every duration here.
Second == 1000000

\* base.Backoff: the server's Retry-After as a duration, 0 for other errors.
Backoff(e) == IF ~e.st THEN 0 ELSE e.retry * Second

NoResult == [act |-> "none", delay |-> 0]

\* A caller classifies the error it got.
Classify ==
  /\ cout = NoResult
  /\ cout' = [act |-> Action(cin), delay |-> Backoff(cin)]
  /\ UNCHANGED <<xv, cfgv, callv, wrv, workv, lfv, envv, rd, cin, bev>>

\* ------------------------------------------------------- backend wrapper
MaxBeFaults == 3

\* withBackoff's first local value, getBackoff's threshold, and jitter's
\* divisor; durations are in microseconds.
InitialBackoff == 500000
BackoffCap == 15000000
JitterDiv == 50

\* What rand.Float64() can return, as <<numerator, denominator>>.
Rands == {<<0, 1>>, <<1, 2>>, <<3, 4>>}

\* jitter: f = d/50; f += f * (rand.Float64() - 0.5), truncated.
jitter(d, r) == (d * (r[2] + 2 * r[1])) \div (2 * JitterDiv * r[2])

getBackoffAlwaysDouble(d, r) == d * 2 + jitter(d * 2, r)
getBackoff(d, r) ==
  IF d > BackoffCap THEN d + jitter(d, r) ELSE d * 2 + jitter(d * 2, r)

\* b2Root.backoff: the server's delay for a Retry error, and whether there is
\* one.
backoffNoServerDelay(e) == [d |-> 0, ok |-> FALSE]
backoff(e) ==
  IF Action(e) # "Retry" THEN [d |-> 0, ok |-> FALSE]
  ELSE [d |-> Backoff(e), ok |-> Backoff(e) > 0]

\* b2Root.reauth.
reauthNever(e) == FALSE
reauth(e) == Action(e) = "ReAuthenticate"

\* The first result of the closures f that createBucket, listBuckets,
\* deleteBucket and authorizeAccount pass to withBackoff: final on success
\* only.
FinalAlways(e) == TRUE
Final(e) == e = BeNil

\* withBackoff's select: the cases that are ready.
SelectTimerOnly(fired, done) == {"timer"}
SelectReady(fired, done) ==
  (IF fired THEN {"timer"} ELSE {}) \cup (IF done THEN {"ctx"} ELSE {})

\* withBackoff: the wait after f returned e, from the current local value.
NextBackoffs(e, cur) ==
  IF backoff(e).ok THEN {[d |-> backoff(e).d, local |-> FALSE]}
  ELSE {[d |-> getBackoff(cur, r), local |-> TRUE] : r \in Rands}

\* A Retry-After of more than 15 seconds.
LongRetryAfter == 16

\* The errors the wrapped RPC and authorize-account are made to return.
CreateErrs == {StructErr("b2_create_bucket", 401, 0), StructErr("b2_create_bucket", 429, 0),
               StructErr("b2_create_bucket", 503, 1), StructErr("b2_create_bucket", 400, 0),
               StructErr("b2_create_bucket", 503, LongRetryAfter)}
AuthErrs == {StructErr("b2_authorize_account", 401, 0), StructErr("b2_authorize_account", 429, 0)}

BeOutcomes(errs) ==
  IF bctx THEN {CtxErr}
  ELSE {BeNil} \cup (IF bfaults < MaxBeFaults THEN errs ELSE {})

BeAccount(e) == bfaults' = IF e \in {BeNil, CtxErr} THEN bfaults ELSE bfaults + 1

NewLvl == [attempts |-> 0, reauths |-> 0, auths |-> 0, authFails |-> 0, first |-> BeNil]
NoRet == [set |-> FALSE, err |-> BeNil, lvl |-> NewLvl]

\* withReauth returns e to f, and f returns (Final(e), e) to withBackoff,
\* which returns or computes its wait.
FReturn(e, l) ==
  /\ rret' = [set |-> TRUE, err |-> e, lvl |-> l]
  /\ blast' = e
  /\ IF Final(e)
     THEN /\ bpc' = "done"
          /\ bret' = e
          /\ UNCHANGED <<bbackoff, bwaits, bfired>>
     ELSE \E w \in NextBackoffs(e, bbackoff) :
          /\ bbackoff' = w.d
          /\ bwaits' = Append(bwaits, w)
          /\ bpc' = "wait"
          /\ bfired' = FALSE
          /\ UNCHANGED bret

\* beRoot's credentials. account and key are assigned in authorizeAccount
\* after b2i.authorizeAccount returned nil; reauthorizeAccount passes them back
\* in. ok is the pair of the last authorize-account that succeeded, used the
\* pair the last re-authorization sent, last and lastOk the latest explicit call.
MaxLogins == 1
Creds == {"id1:key1", "id2:key2"}
NoCreds == ""
NoCred == [stored |-> NoCreds, ok |-> NoCreds, used |-> NoCreds, logins |-> 0,
           last |-> NoCreds, lastOk |-> FALSE]
\* NewClient returned a client: its authorizeAccount with c returned nil.
NewCred(c) == [NoCred EXCEPT !.stored = c, !.ok = c]

\* r.account, r.key after one authorize-account with c that returned e.
StoredAfterAnyResult(cur, c, e) == c
StoredAfter(cur, c, e) == IF e = BeNil THEN c ELSE cur

\* beRoot.authorizeAccount called with c before the wrapped RPC, under a
\* context of its own: nil once an attempt succeeded, or that context's error
\* when none did.
BeLogin(c) ==
  /\ bpc = "try"
  /\ battempts = 0
  /\ cred.logins < MaxLogins
  /\ \E e \in {BeNil, CtxErr} :
       cred' = [cred EXCEPT !.stored = StoredAfter(cred.stored, c, e),
                            !.ok = IF e = BeNil THEN c ELSE @,
                            !.logins = @ + 1,
                            !.last = c,
                            !.lastOk = (e = BeNil)]
  /\ UNCHANGED <<xv, cfgv, callv, wrv, workv, lfv, envv, rd, clv, bpc, bctx, bfired, bbackoff,
                 abackoff, bwaits, battempts, bauths, bfaults, bclasses, blast, bret, lvl, rret>>

\* withReauth: err := f(), the first attempt of the RPC.
BeAttempt ==
  /\ bpc = "try"
  /\ \E e \in BeOutcomes(CreateErrs) :
       /\ BeAccount(e)
       /\ battempts' = battempts + 1
       /\ bclasses' = IF e = BeNil THEN bclasses ELSE bclasses \cup {Action(e)}
       /\ IF reauth(e)
          THEN /\ bpc' = "auth"
               /\ lvl' = [lvl EXCEPT !.attempts = @ + 1, !.reauths = @ + 1, !.first = e]
               /\ abackoff' = InitialBackoff
               /\ UNCHANGED <<bfired, bbackoff, bwaits, blast, bret, rret>>
          ELSE /\ lvl' = [lvl EXCEPT !.attempts = @ + 1, !.first = e]
               /\ FReturn(e, lvl')
               /\ UNCHANGED abackoff
  /\ UNCHANGED <<xv, cfgv, callv, wrv, workv, lfv, envv, rd, clv, cred, bctx, bauths>>

\* reauthorizeAccount: authorizeAccount with the stored credentials, under
\* its own withBackoff.
BeAuthorize ==
  /\ bpc = "auth"
  /\ \E e \in BeOutcomes(AuthErrs) :
       /\ BeAccount(e)
       /\ bauths' = bauths + 1
       /\ cred' = [cred EXCEPT !.used = cred.stored,
                               !.stored = StoredAfter(cred.stored, cred.stored, e),
                               !.ok = IF e = BeNil THEN cred.stored ELSE @]
       /\ IF Final(e)
          THEN /\ bpc' = "retry"
               /\ lvl' = [lvl EXCEPT !.auths = @ + 1]
               /\ UNCHANGED <<abackoff, bfired>>
          ELSE \E w \in NextBackoffs(e, abackoff) :
               /\ abackoff' = w.d
               /\ bpc' = "auth_wait"
               /\ bfired' = FALSE
               /\ lvl' = [lvl EXCEPT !.auths = @ + 1, !.authFails = @ + 1]
  /\ UNCHANGED <<xv, cfgv, callv, wrv, workv, lfv, envv, rd, clv, bctx, bbackoff, bwaits, battempts,
                 bclasses, blast, bret, rret>>

\* The select of authorizeAccount's withBackoff; on the context's error
\* reauthorizeAccount fails and withReauth returns that error.
BeAuthWake ==
  /\ bpc = "auth_wait"
  /\ \E br \in SelectReady(bfired, bctx) :
       IF br = "timer"
       THEN /\ bpc' = "auth"
            /\ UNCHANGED <<bfired, bbackoff, bwaits, blast, bret, rret>>
       ELSE FReturn(CtxErr, lvl)
  /\ UNCHANGED <<xv, cfgv, callv, wrv, workv, lfv, envv, rd, clv, cred, bctx, abackoff, battempts, bauths,
                 bfaults, bclasses, lvl>>

\* withReauth: err = f() after the re-authorization; whatever it returns is
\* returned.
BeRetry ==
  /\ bpc = "retry"
  /\ \E e \in BeOutcomes(CreateErrs) :
       /\ BeAccount(e)
       /\ battempts' = battempts + 1
       /\ bclasses' = IF e = BeNil THEN bclasses ELSE bclasses \cup {Action(e)}
       /\ lvl' = [lvl EXCEPT !.attempts = @ + 1]
       /\ FReturn(e, lvl')
  /\ UNCHANGED <<xv, cfgv, callv, wrv, workv, lfv, envv, rd, clv, cred, bctx, abackoff, bauths>>

\* withBackoff's select: the context's error, or round the loop again.
BeWake ==
  /\ bpc = "wait"
  /\ \E br \in SelectReady(bfired, bctx) :
       IF br = "timer"
       THEN /\ bpc' = "try"
            /\ lvl' = NewLvl
            /\ UNCHANGED bret
       ELSE /\ bpc' = "done"
            /\ bret' = CtxErr
            /\ UNCHANGED lvl
  /\ UNCHANGED <<xv, cfgv, callv, wrv, workv, lfv, envv, rd, clv, cred, bctx, bfired, bbackoff, abackoff,
                 bwaits, battempts, bauths, bfaults, bclasses, blast, rret>>

\* The duration of the current time.After, which is positive, elapses; a
\* timer started or still running once the context is done comes too late for
\* the select.
TimerFire ==
  /\ bpc \in {"wait", "auth_wait"}
  /\ ~bfired
  /\ ~bctx
  /\ bfired' = TRUE
  /\ UNCHANGED <<xv, cfgv, callv, wrv, workv, lfv, envv, rd, clv, cred, bpc, bctx, bbackoff, abackoff,
                 bwaits, battempts, bauths, bfaults, bclasses, blast, bret, lvl, rret>>

\* The caller's context is cancelled or expires.
BeCancel ==
  /\ bpc \notin {"idle", "done"}
  /\ ~bctx
  /\ bctx' = TRUE
  /\ UNCHANGED <<xv, cfgv, callv, wrv, workv, lfv, envv, rd, clv, cred, bpc, bfired, bbackoff, abackoff,
                 bwaits, battempts, bauths, bfaults, bclasses, blast, bret, lvl, rret>>

\* ---------------------------------------------------------------- buckets
MaxRev == 3
MaxBucketOps == 5
Handles == {1, 2}
InfoKeys == {"food", "nails"}

\* base.Bucket as CreateBucket and ListBuckets return it: the attributes and
\* the revision the service reported.
Fetched(srv) == [rev |-> srv.rev, info |-> srv.info]

NoBuckets == [srv |-> [rev |-> 0, info |-> {}],
              h |-> [i \in Handles |-> [rev |-> 0, info |-> {}]],
              at |-> [i \in Handles |-> {}],
              log |-> <<>>]

\* Two handles on one bucket, as startLiveTest gives them.
NewBuckets ==
  LET srv == [rev |-> 1, info |-> {}] IN
  [NoBuckets EXCEPT !.srv = srv, !.h = [i \in Handles |-> Fetched(srv)]]

\* base.Bucket.Update: the request's IfRevisionIs.
IfRevisionIsUnset(b) == 0
IfRevisionIs(b) == b.rev

\* b2_update_bucket on the service: an update conditioned on a revision is
\* applied only to that revision; a request whose ifRevisionIs is Go's zero
\* value is sent without it, or with 0, as the request type's encoding has
\* it.
ServerAccepts(sent, cur) == IF sent = 0 THEN {TRUE, FALSE} ELSE {sent = cur}

\* base.Bucket.Update's result: the Bucket built from the response, in which
\* rev is not set.
Updated(info) == [rev |-> 0, info |-> info]

\* Bucket.Attrs: the handle fetches the bucket again and returns its
\* attributes.
BucketAttrs(i) ==
  /\ bk.srv.rev > 0
  /\ Len(bk.log) < MaxBucketOps
  /\ bk' = [bk EXCEPT !.h[i] = Fetched(bk.srv), !.at[i] = bk.srv.info,
                      !.log = Append(@, [h |-> i, op |-> "attrs", res |-> "ok"])]
  /\ UNCHANGED <<cfgv, callv, wrv, workv, lfv, envv, rd, clv, bev, ctr, yv>>

\* attrs.Info[k] = ...; Bucket.Update(attrs): the handle sends the attributes
\* with the revision it holds; on success it keeps the Bucket that
\* base.Bucket.Update returns, on HTTP 409 it reports an update conflict.
BucketUpdate(i, k) ==
  /\ bk.srv.rev > 0 /\ bk.srv.rev < MaxRev
  /\ Len(bk.log) < MaxBucketOps
  /\ LET info == bk.at[i] \cup {k} IN
     \E ok \in ServerAccepts(IfRevisionIs(bk.h[i]), bk.srv.rev) :
        IF ok
        THEN bk' = [bk EXCEPT !.srv = [rev |-> @.rev + 1, info |-> info],
                              !.h[i] = Updated(info), !.at[i] = info,
                              !.log = Append(@, [h |-> i, op |-> "update", res |-> "ok"])]
        ELSE bk' = [bk EXCEPT !.at[i] = info,
                              !.log = Append(@, [h |-> i, op |-> "update", res |-> "conflict"])]
  /\ UNCHANGED <<cfgv, callv, wrv, workv, lfv, envv, rd, clv, bev, ctr, yv>>

BucketsIdle == bk = NoBuckets

\* ---------------------------------------------------------------- Counter
MaxBuckets == 2
MaxTime == 6
MaxEvents == 3
MaxAmount == 1
Resolutions == {1, 2}
NoTime == -1
NoCount == -1

RECURSIVE SumTo(_, _, _)
SumTo(f, a, b) == IF a > b THEN 0 ELSE f[a] + SumTo(f, a + 1, b)

NoCounter == [n |-> 0, res |-> 0, count |-> <<>>, last |-> NoTime, now |-> 0,
              hist |-> [a \in 0..MaxTime |-> 0], events |-> 0, op |-> "none", got |-> NoCount]

\* counter.New(duration, resolution): duration/resolution buckets.
NewCounter(n, r) == [NoCounter EXCEPT !.n = n, !.res = r, !.count = [j \in 0..(n - 1) |-> 0], !.op = "new"]

\* Counter.bucket.
bucket(c, t) == (t \div c.res) % c.n

\* Counter.sweep: the counts once the buckets not seen since the last sweep
\* are expired.  The first sweep finds last at the zero time, further away
\* than the counter measures.
sweep(c, t) ==
  IF c.last # NoTime /\ bucket(c, t) = bucket(c, c.last) /\ t - c.last <= c.res
  THEN c.count
  ELSE IF c.last = NoTime \/ t - c.last > c.res * c.n
  THEN [j \in 0..(c.n - 1) |-> 0]
  ELSE [j \in 0..(c.n - 1) |->
          IF \E i \in ((c.last \div c.res) + 1)..(t \div c.res) : i % c.n = j THEN 0 ELSE c.count[j]]

\* Counter.Inc(n) at the clock's time: nothing for n <= 0, else incAt.
CounterInc(n) ==
  /\ ctr.op # "none"
  /\ ctr.events < MaxEvents
  /\ IF n <= 0
     THEN ctr' = [ctr EXCEPT !.events = @ + 1, !.op = "inc0"]
     ELSE LET t == ctr.now
              swept == sweep(ctr, t)
          IN ctr' = [ctr EXCEPT !.count = [swept EXCEPT ![bucket(ctr, t)] = @ + n],
                                !.last = t,
                                !.hist[t \div ctr.res] = @ + n,
                                !.events = @ + 1, !.op = "inc"]
  /\ UNCHANGED <<cfgv, callv, wrv, workv, lfv, envv, rd, clv, bev, bk, yv>>

\* Counter.Count() at the clock's time: countAt.
CounterCount ==
  /\ ctr.op \notin {"none", "count"}
  /\ LET swept == sweep(ctr, ctr.now) IN
     ctr' = [ctr EXCEPT !.count = swept, !.last = ctr.now,
                        !.got = SumTo(swept, 0, ctr.n - 1), !.op = "count"]
  /\ UNCHANGED <<cfgv, callv, wrv, workv, lfv, envv, rd, clv, bev, bk, yv>>

\* Time passes.
CounterTick ==
  /\ ctr.op # "none"
  /\ ctr.now < MaxTime
  /\ ctr' = [ctr EXCEPT !.now = @ + 1, !.op = "tick"]
  /\ UNCHANGED <<cfgv, callv, wrv, workv, lfv, envv, rd, clv, bev, bk, yv>>

CounterIdle == ctr = NoCounter

\* ------------------------------------------------------------- MethodInfo
\* Durations are counted in half milliseconds.
Millisecond == 2
MaxCalls == 2

\* The bins of a histogram.
numBins == 22

\* int(math.Log2(x)) for an integer x >= 1.
RECURSIVE Log2(_)
Log2(x) == IF x < 2 THEN 0 ELSE 1 + Log2(x \div 2)

getBinClampAbove(d) ==
  LET i == Log2(1 + d \div Millisecond) IN
  IF i > numBins THEN numBins ELSE i
getBin(d) ==
  LET i == Log2(1 + d \div Millisecond) IN
  IF i >= numBins THEN numBins - 1 ELSE i

\* The calls added: below a millisecond, on and off the edges of the first
\* bins, an hour, and past the last finite bin.
Hour == 3600000 * Millisecond
Durations == {0, 1, 3, 6, Hour, 1073741823 * Millisecond}
MonMethods == {"0", "1"}
MonCodes == {0, 1}

\* hist, a [numBins]int; a map gives the zero value for a missing key.
ZeroHist == [i \in 0..(numBins - 1) |-> 0]
NoHist == <<>>

NoMonitor == [data |-> <<>>, calls |-> 0, added |-> <<>>, panicked |-> FALSE,
              op |-> "none", last |-> 0, bin |-> 0, hg |-> NoHist, cnt |-> 0]

NewMonitor ==
  [NoMonitor EXCEPT !.op = "new",
                    !.data = [k \in MonMethods \X MonCodes |-> ZeroHist],
                    !.added = [d \in Durations |-> 0]]

\* MethodInfo.addCall: hist.inc at the index getBin gives; an index outside
\* the array panics.
addCall(method, d, code) ==
  /\ mon.op # "none" /\ ~mon.panicked
  /\ mon.calls < MaxCalls
  /\ LET i == getBin(d) IN
     IF i \in 0..(numBins - 1)
     THEN mon' = [mon EXCEPT !.data[<<method, code>>][i] = @ + 1,
                             !.calls = @ + 1, !.added[d] = @ + 1,
                             !.op = "addCall", !.last = d, !.bin = i]
     ELSE mon' = [mon EXCEPT !.panicked = TRUE, !.op = "addCall", !.last = d, !.bin = i]
  /\ UNCHANGED <<cfgv, callv, wrv, workv, lfv, envv, rd, clv, bev, bk, ctr, grp>>

RECURSIVE SumOver(_, _)
SumOver(f, S) == IF S = {} THEN 0 ELSE LET x == CHOOSE x \in S : TRUE IN f[x] + SumOver(f, S \ {x})

\* MethodInfo.Histogram and MethodInfo.Count.
Histogram == [i \in 0..(numBins - 1) |-> SumOver([k \in DOMAIN mon.data |-> mon.data[k][i]], DOMAIN mon.data)]
Count == SumOver([k \in DOMAIN mon.data |-> SumOver(mon.data[k], DOMAIN mon.data[k])], DOMAIN mon.data)

MonitorReport ==
  /\ mon.op \notin {"none", "report"} /\ ~mon.panicked
  /\ mon' = [mon EXCEPT !.op = "report", !.hg = Histogram, !.cnt = Count]
  /\ UNCHANGED <<cfgv, callv, wrv, workv, lfv, envv, rd, clv, bev, bk, ctr, grp>>

MonitorIdle == mon = NoMonitor

\* ------------------------------------------------------------------ Group
MaxLoads == 3
MaxOthers == 1
MaxGroupFaults == 1
Savers == {1, 2}
NoSerial == -1

NoSaver == [pc |-> "idle", from |-> NoSerial, ai |-> NoSerial, rev |-> 0, ret |-> "none", tries |-> 0]

\* The bucket on the service: its revision and the Serial of the atomicInfo
\* under metaKey in its Info, 0 when there is none.
NoGroup == [srv |-> [rev |-> 0, serial |-> 0], sv |-> [i \in Savers |-> NoSaver],
            loads |-> 0, others |-> 0, faults |-> 0, op |-> "none"]

NewGroup == [NoGroup EXCEPT !.srv.rev = 1, !.op = "new"]

\* Group.info for the caller of save: the atomicInfo now in the bucket.
GroupLoad(i) ==
  /\ grp.op # "none"
  /\ grp.sv[i].pc \in {"idle", "done"}
  /\ grp.loads < MaxLoads
  /\ grp' = [grp EXCEPT !.sv[i] = [NoSaver EXCEPT !.pc = "loaded", !.from = grp.srv.serial,
                                                  !.ai = grp.srv.serial],
                        !.loads = @ + 1, !.op = "load"]
  /\ UNCHANGED <<cfgv, callv, wrv, workv, lfv, envv, rd, clv, bev, bk, ctr, mon>>

\* Group.save, up to its loop: ai.Serial++.
SaveBegin(i) ==
  /\ grp.sv[i].pc = "loaded"
  /\ grp' = [grp EXCEPT !.sv[i].ai = @ + 1, !.sv[i].pc = "info", !.op = "begin"]
  /\ UNCHANGED <<cfgv, callv, wrv, workv, lfv, envv, rd, clv, bev, bk, ctr, mon>>

\* The test of the loop: oldAI.Serial != ai.Serial-1 is an update conflict.
SerialFollowsAlways(old, ai) == TRUE
SerialFollows(old, ai) == old = ai - 1

\* The loop of Group.save, first half: g.info, which fetches the bucket's
\* attributes into g.ba, and the test of the Serial.
SaveInfo(i) ==
  /\ grp.sv[i].pc = "info"
  /\ \E out \in {"ok"} \cup (IF grp.faults < MaxGroupFaults THEN {"fail"} ELSE {}) :
       IF out = "fail"
       THEN grp' = [grp EXCEPT !.sv[i].pc = "done", !.sv[i].ret = "error",
                               !.faults = @ + 1, !.op = "info"]
       ELSE IF ~SerialFollows(grp.srv.serial, grp.sv[i].ai)
       THEN grp' = [grp EXCEPT !.sv[i].pc = "done", !.sv[i].ret = "errUpdateConflict",
                               !.sv[i].rev = grp.srv.rev, !.op = "info"]
       ELSE grp' = [grp EXCEPT !.sv[i].pc = "update", !.sv[i].rev = grp.srv.rev, !.op = "info"]
  /\ UNCHANGED <<cfgv, callv, wrv, workv, lfv, envv, rd, clv, bev, bk, ctr, mon>>

\* The loop of Group.save, second half: g.b.Update(ctx, g.ba) with the
\* encoded ai under metaKey; nil returns, an update conflict of the bucket
\* goes round the loop, another error returns.
SaveUpdate(i) ==
  /\ grp.sv[i].pc = "update"
  /\ grp.srv.rev < MaxRev
  /\ \E out \in {"ok"} \cup (IF grp.faults < MaxGroupFaults THEN {"fail"} ELSE {}) :
       IF out = "fail"
       THEN grp' = [grp EXCEPT !.sv[i].pc = "done", !.sv[i].ret = "error",
                               !.faults = @ + 1, !.op = "update"]
       ELSE \E accepted \in ServerAccepts(IfRevisionIs(grp.sv[i]), grp.srv.rev) :
            IF accepted
            THEN grp' = [grp EXCEPT !.srv = [rev |-> @.rev + 1, serial |-> grp.sv[i].ai],
                                    !.sv[i].pc = "done", !.sv[i].ret = "nil", !.op = "update"]
            ELSE grp' = [grp EXCEPT !.sv[i].pc = "info", !.sv[i].tries = @ + 1, !.op = "update"]
  /\ UNCHANGED <<cfgv, callv, wrv, workv, lfv, envv, rd, clv, bev, bk, ctr, mon>>

\* Someone else updates another attribute of the bucket: a new revision,
\* the same atomicInfo.
OtherUpdate ==
  /\ grp.op # "none"
  /\ grp.others < MaxOthers
  /\ grp.srv.rev < MaxRev
  /\ grp' = [grp EXCEPT !.srv.rev = @ + 1, !.others = @ + 1, !.op = "other"]
  /\ UNCHANGED <<cfgv, callv, wrv, workv, lfv, envv, rd, clv, bev, bk, ctr, mon>>

GroupIdle == grp = NoGroup

\* --------------------------------------------------------- specifications
\* The classifier and the wrapper before any use.
ClassifierIdle == cin = BeNil /\ cout = NoResult

BackendIdle ==
  /\ bpc = "idle" /\ bctx = FALSE /\ bfired = FALSE
  /\ bbackoff = InitialBackoff /\ abackoff = InitialBackoff
  /\ bwaits = <<>> /\ battempts = 0 /\ bauths = 0 /\ bfaults = 0 /\ bclasses = {}
  /\ blast = BeNil /\ bret = BeNil /\ lvl = NewLvl /\ rret = NoRet
  /\ cred = NoCred

\* The Writer before any use, for the specifications that are not about it.
WriterUnused ==
  /\ B = Ramp /\ csize = 1 /\ conc = 1 /\ seen = NoSeen
  /\ pc = "ready" /\ off = 0 /\ pend = <<>> /\ wacc = 0
  /\ wret = [n |-> 0, err |-> Nil] /\ closeRets = <<>>
  /\ cbuf = <<>> /\ chsh = <<>> /\ cidx = 0
  /\ onceDone = FALSE /\ started = FALSE /\ readyClosed = FALSE
  /\ err = Nil /\ doneLatch = FALSE /\ pool = EmptyBag
  /\ hashes = [i \in 1..MaxParts |-> NoHash]
  /\ parts = [i \in 1..MaxParts |-> NoPart]
  /\ commits = [i \in 1..MaxParts |-> 0]
  /\ attempts = [i \in 1..MaxParts |-> 0]
  /\ sentHashes = <<>>
  /\ rpc = [url |-> 0, file |-> 0, start |-> 0, finish |-> 0, cancel |-> 0]
  /\ faults = 0 /\ hard = FALSE /\ transient = FALSE /\ ctxDone = FALSE

WriterIdle == WriterUnused /\ stored = NoFile /\ rd = NoReader

OthersIdle == WriterIdle /\ ClassifierIdle /\ BackendIdle

InitWriter ==
  /\ B \in Inputs
  /\ csize \in 1..MaxChunk
  /\ conc \in 0..MaxWorkers
  /\ pc = "ready"
  /\ off = 0
  /\ pend = <<>>
  /\ wacc = 0
  /\ wret = [n |-> 0, err |-> Nil]
  /\ closeRets = <<>>
  /\ cbuf = <<>>
  /\ chsh = <<>>
  /\ cidx = 0
  /\ onceDone = FALSE
  /\ started = FALSE
  /\ readyClosed = FALSE
  /\ err = Nil
  /\ doneLatch = FALSE
  /\ pool = EmptyBag
  /\ commits = [i \in 1..MaxParts |-> 0]
  /\ attempts = [i \in 1..MaxParts |-> 0]
  /\ stored = NoFile
  /\ sentHashes = <<>>
  /\ rpc = [url |-> 0, file |-> 0, start |-> 0, finish |-> 0, cancel |-> 0]
  /\ faults = 0
  /\ hard = FALSE
  /\ transient = FALSE
  /\ ctxDone = FALSE
  /\ rd = NoReader
  /\ ClassifierIdle
  /\ BackendIdle
  /\ BucketsIdle
  /\ CounterIdle
  /\ MonitorIdle
  /\ GroupIdle

\* A Writer on a name that has no unfinished large file.
Init ==
  /\ InitWriter
  /\ seen = NoSeen
  /\ hashes = [i \in 1..MaxParts |-> NoHash]
  /\ parts = [i \in 1..MaxParts |-> NoPart]

\* The Writer: its caller and its upload workers.
WriterNext ==
  \/ \E n \in 0..MaxLen : CallWrite(n)
  \/ WriteCont
  \/ Handoff
  \/ WorkerGetURL
  \/ WorkerRecvClosed
  \/ WorkerUpload
  \/ WorkerReURL
  \/ CallClose
  \/ CloseGetURL
  \/ CloseUpload
  \/ CloseFinish

\* The Reader on the committed object.
ReaderNext ==
  \/ \E cs \in 1..MaxReadChunk, k \in 1..MaxDownloads : NewReader(cs, k)
  \/ ReaderDispatch
  \/ \E i \in ChunkIdx : ReaderComplete(i)
  \/ \E n \in 1..MaxReadChunk : ReaderRead(n)

\* The Writer in an environment where RPCs fail and the context may be
\* cancelled.
Next == WriterNext \/ CancelCtx

Spec == Init /\ [][Next]_vars

\* No RPC fails and the context stays live.
Quiet == faults' = 0 /\ ~ctxDone'

\* A Writer lifecycle in a quiet environment, followed by a Reader lifecycle.
NextRoundTrip == (WriterNext /\ Quiet) \/ ReaderNext

SpecRoundTrip == Init /\ [][NextRoundTrip]_vars

\* A Writer with Resume on a name that has an unfinished large file: an
\* earlier upload of the same stream with the same chunk size left some of
\* its parts, any of them, on the service.  The Writer lists them (seen) and
\* takes the LargeFile CompileParts makes of them.
StreamChunk(i) == SubSeq(B, (i - 1) * csize + 1, Min(i * csize, Len(B)))

CompileParts(sn) == [i \in 1..MaxParts |-> sn[i]]

InitResume ==
  /\ InitWriter
  /\ \E S \in SUBSET (1..CeilDiv(Len(B), csize)) \ {{}} :
       /\ parts = [i \in 1..MaxParts |-> IF i \in S THEN StreamChunk(i) ELSE NoPart]
       /\ seen = [i \in 1..MaxParts |-> IF i \in S THEN SHA1(StreamChunk(i)) ELSE NoHash]
       /\ hashes = CompileParts(seen)

\* The caller streams all of its input before it closes.
SameBytes == doneLatch' => off = Len(B)

NextResume == WriterNext /\ Quiet /\ SameBytes

SpecResume == InitResume /\ [][NextResume]_vars

\* Reader lifecycles on a stored object of any size up to MaxLen, opened at
\* any offset and with any length.
Objects == {SubSeq(Ramp, 1, n) : n \in 0..MaxLen}

InitReader ==
  /\ WriterUnused /\ ClassifierIdle /\ BackendIdle /\ BucketsIdle /\ CounterIdle /\ MonitorIdle /\ GroupIdle
  /\ stored \in Objects
  /\ rd = NoReader

NextReader ==
  \/ \E cs \in 1..MaxReadChunk, k \in 1..MaxDownloads, o \in 0..MaxLen, n \in -1..(MaxLen + 1) :
        NewRangeReader(cs, k, o, n)
  \/ ReaderDispatch
  \/ \E i \in ChunkIdx : ReaderComplete(i)
  \/ \E n \in 1..MaxReadChunk : ReaderRead(n)

SpecReader == InitReader /\ [][NextReader]_vars

\* Two handles on one bucket, each fetching the attributes and updating
\* them in any order.
InitBuckets == OthersIdle /\ CounterIdle /\ MonitorIdle /\ GroupIdle /\ bk = NewBuckets

NextBuckets ==
  \/ \E i \in Handles : BucketAttrs(i)
  \/ \E i \in Handles, k \in InfoKeys : BucketUpdate(i, k)

SpecBuckets == InitBuckets /\ [][NextBuckets]_vars

\* A Counter of any size up to MaxBuckets, with increments and counts as
\* time passes.
InitCounter ==
  /\ OthersIdle /\ BucketsIdle /\ MonitorIdle /\ GroupIdle
  /\ ctr \in {NewCounter(n, r) : n \in 1..MaxBuckets, r \in Resolutions}

NextCounter ==
  \/ \E n \in -1..MaxAmount : CounterInc(n)
  \/ CounterCount
  \/ CounterTick

SpecCounter == InitCounter /\ [][NextCounter]_vars

\* Calls of any of the durations added to a MethodInfo, and its reports.
InitMonitor ==
  /\ OthersIdle /\ BucketsIdle /\ CounterIdle /\ GroupIdle
  /\ mon = NewMonitor

NextMonitor ==
  \/ \E m \in MonMethods, d \in Durations, c \in MonCodes : addCall(m, d, c)
  \/ MonitorReport

SpecMonitor == InitMonitor /\ [][NextMonitor]_vars

\* Two savers on one bucket, each loading the atomicInfo and saving its
\* successor, while the bucket is updated by others.
InitGroup ==
  /\ OthersIdle /\ BucketsIdle /\ CounterIdle /\ MonitorIdle
  /\ grp = NewGroup

NextGroup ==
  \/ \E i \in Savers : GroupLoad(i)
  \/ \E i \in Savers : SaveBegin(i)
  \/ \E i \in Savers : SaveInfo(i)
  \/ \E i \in Savers : SaveUpdate(i)
  \/ OtherUpdate

SpecGroup == InitGroup /\ [][NextGroup]_vars

\* The classifier applied to every error of ErrInputs.
InitClassify == WriterIdle /\ BackendIdle /\ BucketsIdle /\ CounterIdle /\ MonitorIdle /\ GroupIdle /\ cin \in ErrInputs /\ cout = NoResult

NextClassify == Classify

SpecClassify == InitClassify /\ [][NextClassify]_vars

\* One call of a wrapped RPC (createBucket): withBackoff around withReauth,
\* with failing RPCs, timers and a context that may be cancelled.
InitBackend ==
  /\ WriterIdle /\ ClassifierIdle /\ BucketsIdle /\ CounterIdle /\ MonitorIdle /\ GroupIdle
  /\ bpc = "try" /\ bctx = FALSE /\ bfired = FALSE
  /\ bbackoff = InitialBackoff /\ abackoff = InitialBackoff
  /\ bwaits = <<>> /\ battempts = 0 /\ bauths = 0 /\ bfaults = 0 /\ bclasses = {}
  /\ blast = BeNil /\ bret = BeNil /\ lvl = NewLvl /\ rret = NoRet
  /\ cred \in {NewCred(c) : c \in Creds}

NextBackend ==
  \/ \E c \in Creds : BeLogin(c)
  \/ BeAttempt
  \/ BeAuthorize
  \/ BeAuthWake
  \/ BeRetry
  \/ BeWake
  \/ TimerFire
  \/ BeCancel

SpecBackend == InitBackend /\ [][NextBackend]_vars

\* ------------------------------------------------- vocabulary of the claims
\* The bytes the caller has passed to Write, the parts they fall into, and
\* the kinds of committing or cancelling RPC issued so far.
Given == SubSeq(B, 1, off)
NParts == CeilDiv(off, csize)
ChunkOf(i) == SubSeq(Given, (i - 1) * csize + 1, Min(i * csize, off))
Closed == Len(closeRets) >= 1
NoErrors == faults = 0 /\ ~ctxDone
KindsPerformed == Cardinality({k \in {"file", "finish", "cancel"} : rpc[k] > 0})
Live == CountAt({"geturl", "recv", "upload", "reurl"})

C2_ExactlyOneKind == Closed => KindsPerformed = 1

\* C2, amended: at most one of the three kinds is ever performed, exactly one
\* when the first Close returned nil, and the caller's goroutine issues no
\* RPC once the first Close has returned.
C2_AtMostOneKind ==
  [][ /\ KindsPerformed' <= 1
      /\ (Closed' /\ closeRets'[1] = Nil) => KindsPerformed' = 1
      /\ Closed => rpc' = rpc ]_vars

C2_Witness == Len(closeRets) = 2 /\ closeRets[1] = Nil /\ rpc.finish = 1 /\ faults > 0

\* -------------------------------------------------------------------- C3
\* C3: a second Close returns what the first Close returned.
C3_CloseTwiceSame == Len(closeRets) >= 2 => closeRets[2] = closeRets[1]

\* -------------------------------------------------------------------- C4
\* C4: the latch, once set, never changes; a Write called with the latch set
\* returns the latched error with 0 bytes, buffers nothing and issues no RPC.
C4_LatchSticky ==
  [][ /\ err # Nil => err' = err
      /\ (pc = "ready" /\ err # Nil /\ off' # off) =>
           /\ pc' = "ready"
           /\ wret' = [n |-> 0, err |-> err]
           /\ UNCHANGED <<cbuf, chsh, cidx, rpc, attempts, pool>> ]_vars

C4_Witness ==
  /\ err = ErrOf("b2_upload_part", 1) /\ wret = [n |-> 0, err |-> err]
  /\ attempts[2] >= 1 /\ commits[2] = 0 /\ CountAt({"exit"}) = 2 /\ ~readyClosed
  /\ faults = 2 /\ ~transient

\* -------------------------------------------------------------------- C5
\* C5: with no error, a stream of at most ChunkSize bytes, ChunkSize bytes
\* exactly included, is committed by one upload-file, with no
\* start-large-file, upload-part or finish-large-file.
C5_SmallFileSimple ==
  (Closed /\ NoErrors /\ off <= csize) =>
     /\ rpc.file = 1 /\ rpc.start = 0 /\ rpc.finish = 0
     /\ \A i \in 1..MaxParts : attempts[i] = 0

\* -------------------------------------------------------------------- C6
\* C6: with no error, a stream longer than ChunkSize costs one
\* start-large-file, one upload-part for each of the ceil(|B|/ChunkSize)
\* part numbers 1..n and for no other, and one finish-large-file.
C6_MultipartCounts ==
  (Closed /\ NoErrors /\ off > csize) =>
     /\ rpc.start = 1 /\ rpc.finish = 1 /\ rpc.file = 0
     /\ \A i \in 1..MaxParts : attempts[i] = (IF i <= NParts THEN 1 ELSE 0)

C6_Witness ==
  Closed /\ NoErrors /\ off = MaxLen /\ csize = 2 /\ attempts[NParts] = 1 /\ rpc.finish = 1

\* -------------------------------------------------------------------- C7
\* C7: a Close of a multipart upload that returns with an error latched
\* has issued cancel-large-file, has not issued finish-large-file, and
\* returns the latched error.
C7_CloseCancelsOnLatch ==
  [][ (~Closed /\ Closed' /\ started /\ err # Nil) =>
        /\ rpc'.cancel >= 1
        /\ rpc'.finish = 0
        /\ closeRets'[1] = err ]_vars

\* -------------------------------------------------------------------- C8
\* C8: when the context is cancelled and nothing else fails, a Write is not
\* left at the hand-off with every worker gone: nothing would ever take its
\* chunk, and it would never return.
C8_WriteNotStuckAtHandoff == ~(ctxDone /\ faults = 0 /\ pc = "w_send" /\ Live = 0)

\* -------------------------------------------------------------------- C9
\* C9: when the context of a multipart upload was cancelled, and nothing
\* else failed, before Close returned, cancel-large-file was invoked and
\* finish-large-file was not.
C9_CancelledIsCancelled ==
  (Closed /\ started /\ ctxDone /\ faults = 0) => (rpc.cancel >= 1 /\ rpc.finish = 0)

\* ------------------------------------------------------------------- C10
\* C10: when the only failures are transient upload errors, the closed
\* multipart upload has committed every part once, with its own bytes, has
\* sent the digests in part order in its one finish-large-file, and the
\* object is the bytes written.
C10_TransientErrorsHarmless ==
  (Closed /\ started /\ ~hard /\ ~ctxDone) =>
     /\ closeRets[1] = Nil
     /\ stored = Given
     /\ rpc.finish = 1
     /\ \A i \in 1..MaxParts :
          IF i <= NParts
          THEN commits[i] = 1 /\ parts[i] = ChunkOf(i)
          ELSE commits[i] = 0 /\ parts[i] = NoPart
     /\ sentHashes = [i \in 1..NParts |-> SHA1(ChunkOf(i))]

C10_Witness ==
  /\ Closed /\ started /\ ~hard /\ ~ctxDone /\ transient /\ faults = 2
  /\ Uploads = 2 /\ NParts >= 2 /\ B = Ramp /\ stored = B
  /\ \E i \in 1..MaxParts : attempts[i] >= 2

\* ------------------------------------------------------------------- C11
\* C11: a withReauth invocation whose first attempt fails with a
\* ReAuthenticate error re-authorizes once (one authorize-account RPC when
\* that does not fail) and then attempts the RPC exactly once more, returning
\* whatever that attempt returns, a ReAuthenticate error included, with no
\* second re-authorization; any other first result is returned as it is.
C11_ReauthOnce ==
  /\ lvl.reauths <= 1 /\ lvl.attempts <= 2
  /\ rret.set =>
       LET l == rret.lvl IN
       IF Action(l.first) = "ReAuthenticate"
       THEN /\ l.reauths = 1
            /\ l.authFails = 0 => l.auths = 1
            /\ IF l.auths > l.authFails
               THEN l.attempts = 2
               ELSE l.attempts = 1 /\ rret.err = CtxErr
       ELSE l.reauths = 0 /\ l.auths = 0 /\ l.attempts = 1 /\ rret.err = l.first

C11_Witness ==
  /\ rret.set /\ Action(rret.lvl.first) = "ReAuthenticate"
  /\ Action(rret.err) = "ReAuthenticate"
  /\ rret.lvl.attempts = 2 /\ rret.lvl.auths = 1 /\ bauths = 1

\* ------------------------------------------------------------------- C12
\* C12: a wrapped call whose RPC failed n times, each time with a Retry
\* error, with or without a server delay, and whose context is live, returns
\* nil after exactly n waits and n + 1 attempts.
C12_TransientNotSurfaced ==
  (bpc = "done" /\ ~bctx /\ bclasses \subseteq {"Retry"}) =>
     /\ bret = BeNil
     /\ Len(bwaits) = bfaults
     /\ battempts = bfaults + 1

C12_Witness ==
  /\ bpc = "done" /\ ~bctx /\ bclasses = {"Retry"} /\ bret = BeNil
  /\ bfaults = MaxBeFaults /\ battempts = MaxBeFaults + 1
  /\ \E i, j \in 1..Len(bwaits) : bwaits[i].local /\ ~bwaits[j].local

\* ------------------------------------------------------------------- C13
\* C13: when the wrapped RPC has failed with a Punt error of the service, the
\* wrapper has returned that error: it is not waiting and does not attempt
\* the RPC again.
C13_PuntSurfaced ==
  (blast.st /\ Action(blast) = "Punt") => (bpc = "done" /\ bret = blast)

\* ------------------------------------------------------------------- C14
\* C14: when the context is done while the backoff loop waits and the timer
\* has not fired, the loop's next step returns the context's error, and no
\* RPC is attempted; from authorizeAccount's loop the error is passed up to
\* the outer loop, which returns it the same way.
C14_CancelDuringWait ==
  [][ /\ (bpc = "wait" /\ bctx /\ ~bfired /\ bpc' # bpc) =>
           /\ bpc' = "done" /\ bret' = CtxErr
           /\ battempts' = battempts /\ bauths' = bauths
      /\ (bpc = "auth_wait" /\ bctx /\ ~bfired /\ bpc' # bpc) =>
           /\ bpc' = "wait" /\ ~bfired' /\ blast' = CtxErr
           /\ battempts' = battempts /\ bauths' = bauths ]_vars

C14_Witness ==
  /\ bpc = "done" /\ bret = CtxErr /\ bctx /\ ~bfired
  /\ blast.st /\ Len(bwaits) >= 2 /\ battempts = 2

C16_RetryAfterFirst ==
  (cout # NoResult /\ cin.st /\ cin.retry > 0) =>
     (cout.act = "Retry" /\ cout.delay = cin.retry * Second)

C16_Witness ==
  /\ cin = StructErr("b2_upload_part", 401, MaxRetryAfter)
  /\ cout = [act |-> "Retry", delay |-> MaxRetryAfter * Second]

\* ------------------------------------------------------------------- C17
\* C17: a structured error without retry-after, with a code in 500..599, from
\* upload-file or upload-part, is classified AttemptNewUpload.
C17_UploadServerError ==
  (cout # NoResult /\ cin.st /\ cin.retry = 0 /\ cin.code >= 500 /\ cin.code <= 599
     /\ cin.method \in UploadMethods) => cout.act = "AttemptNewUpload"

C17_Witness == cin = StructErr("b2_upload_part", 503, 0) /\ cout.act = "AttemptNewUpload"

\* ------------------------------------------------------------------- C18
\* C18: a structured 401 without retry-after is classified Punt from
\* authorize-account, AttemptNewUpload from upload-file or upload-part, and
\* ReAuthenticate from any other method.
C18_Unauthorized ==
  (cout # NoResult /\ cin.st /\ cin.retry = 0 /\ cin.code = 401) =>
     cout.act = (IF cin.method = "b2_authorize_account" THEN "Punt"
                 ELSE IF cin.method \in UploadMethods THEN "AttemptNewUpload"
                 ELSE "ReAuthenticate")

C18_Witness == cin = StructErr("b2_upload_file", 401, 0) /\ cout.act = "AttemptNewUpload"

\* ------------------------------------------------------------------- C19
\* C19: a structured error without retry-after that neither the 5xx-upload
\* rule nor the 401 rule matches is classified Retry when its code is 408,
\* 429, 500 or 503, and Punt otherwise.
C19_RetryCodes ==
  (cout # NoResult /\ cin.st /\ cin.retry = 0 /\ cin.code # 401
     /\ ~(cin.code >= 500 /\ cin.code <= 599 /\ cin.method \in UploadMethods)) =>
     cout.act = (IF cin.code \in {408, 429, 500, 503} THEN "Retry" ELSE "Punt")

\* ------------------------------------------------------------------- C20
\* C20 as stated: the i-th of the consecutive waits of a call that got no
\* server delay lies within 1% of 500 ms doubled i - 1 times (as long as that
\* nominal value has not exceeded 15 s).
C20_LocalBackoff ==
  \A i \in 1..Len(bwaits) :
     ((\A j \in 1..i : bwaits[j].local) /\ InitialBackoff * 2^(i - 1) <= 2 * BackoffCap) =>
        LET n == InitialBackoff * 2^(i - 1)
            d == bwaits[i].d
        IN (d - n) * 100 <= n /\ (n - d) * 100 <= n

\* C20, amended: a wait without server delay is computed from the previous
\* value (500 ms before the first wait, else the previous wait): twice that
\* value while it does not exceed 15 s, that value itself thereafter, in
\* either case plus a jitter of 1% to 3%; the first wait is thus about 1 s.
C20_LocalBackoffFromPrevious ==
  \A i \in 1..Len(bwaits) :
     bwaits[i].local =>
        LET prev == IF i = 1 THEN InitialBackoff ELSE bwaits[i - 1].d
            base == IF prev > BackoffCap THEN prev ELSE 2 * prev
            d == bwaits[i].d
        IN (d - base + 1) * 100 >= base /\ (d - base) * 100 <= 3 * base

C20_Witness ==
  /\ Len(bwaits) >= 3
  /\ bwaits[1].local /\ bwaits[1].d >= 2 * InitialBackoff
  /\ ~bwaits[2].local /\ bwaits[2].d > BackoffCap
  /\ bwaits[3].local /\ bwaits[3].d < 2 * bwaits[2].d

\* ------------------------------------------------------------------- C21
\* C21: whenever the error the loop waits on carries a server delay of
\* d > 0 seconds, the wait is exactly d: it is not a local, jittered value,
\* and it becomes the loop's current backoff; this holds for every attempt
\* of a call.
C21_ServerDelayExact ==
  (bpc = "wait" /\ blast.st /\ blast.retry > 0) =>
     /\ bwaits # <<>>
     /\ bwaits[Len(bwaits)] = [d |-> blast.retry * Second, local |-> FALSE]
     /\ bbackoff = blast.retry * Second

C21_Witness ==
  /\ bpc = "wait" /\ blast.st /\ blast.retry = 1 /\ Len(bwaits) = 3
  /\ bwaits[1] = [d |-> LongRetryAfter * Second, local |-> FALSE]
  /\ bwaits[2].local
  /\ bwaits[3] = [d |-> Second, local |-> FALSE]

\* ------------------------------------------------------------------- C22
\* C22: whatever order the downloads complete in, what Read has returned so
\* far is the Reader's range of the object up to the read position, byte for
\* byte, and a Read that returns bytes takes them from the next chunk in
\* offset order, which must be there: with only a later chunk held, Read
\* returns nothing.
C22_InOrder ==
  /\ [](rd.open =>
          /\ Len(rd.out) = Min(rd.emit * rd.csize, rd.size) + rd.cur
          /\ rd.out = SubSeq(stored, rd.base + 1, rd.base + Len(rd.out)))
  /\ [][rd.out' # rd.out =>
          /\ rd.chunks[rd.emit] # NoPart
          /\ \E m \in 1..MaxReadChunk :
               rd.out' = rd.out \o SubSeq(rd.chunks[rd.emit], rd.cur + 1, rd.cur + m)]_vars

C22_Witness ==
  /\ rd.open /\ rd.out # <<>> /\ stored = Ramp
  /\ rd.chunks[rd.emit] = NoPart /\ rd.emit \in rd.inflight
  /\ rd.emit + 1 \in Buffered

\* ------------------------------------------------------------------- C23
\* C23: a Reader with ConcurrentDownloads = k never has more than k ranged
\* downloads in flight, and at EOF it has emitted its range of the object,
\* which does not depend on k.
C23_BoundedInFlight ==
  rd.open =>
     /\ Cardinality(rd.inflight) <= rd.conc
     /\ rd.eof => rd.out = SubSeq(stored, rd.base + 1, rd.base + rd.size)

C23_Witness ==
  /\ rd.open /\ rd.conc = MaxDownloads /\ Cardinality(rd.inflight) = MaxDownloads
  /\ rd.out # <<>> /\ stored = Ramp /\ rd.csize = 1

\* ------------------------------------------------------------------- C24
\* C24: a range reader opened with offset o and length n on an object of
\* size S has emitted, at EOF, exactly the bytes [o, min(o + n, S)), or
\* [o, S) when n < 0, and at no time more than those.
C24_RangeExact ==
  rd.open =>
     LET S == Len(stored)
         want == IF rd.len < 0 THEN SubSeq(stored, rd.base + 1, S)
                 ELSE SubSeq(stored, rd.base + 1, Min(rd.base + rd.len, S))
     IN /\ Len(rd.out) <= Len(want)
        /\ rd.eof => rd.out = want

C24_Witness ==
  /\ rd.open /\ rd.eof /\ stored = Ramp
  /\ rd.base = 1 /\ rd.len = 1 /\ rd.out = <<2>>

\* ------------------------------------------------------------------- C25
\* C25: a resuming Writer that streamed the bytes of the unfinished large
\* file's upload issues no upload-part RPC for a chunk whose SHA-1 is that
\* of the part held under its number, and starts no new large file; once
\* Close has returned nil every other part was uploaded once, and the
\* object is the source stream with the part SHA-1s a fresh upload sends.
C25_ResumeSkipsHeldParts ==
  /\ \A i \in 1..MaxParts : seen[i] # NoHash => attempts[i] = 0 /\ commits[i] = 0
  /\ Resuming => rpc.start = 0
  /\ (Resuming /\ started /\ Closed /\ closeRets[1] = Nil) =>
        /\ \A i \in 1..NParts : seen[i] = NoHash => commits[i] = 1
        /\ stored = Given /\ Given = B
        /\ sentHashes = [i \in 1..NParts |-> SHA1(ChunkOf(i))]

C25_Witness ==
  /\ started /\ Closed /\ closeRets[1] = Nil /\ B = Ramp /\ csize = 1 /\ stored = Ramp
  /\ seen[1] = NoHash /\ seen[2] # NoHash /\ seen[3] = NoHash
  /\ attempts = [i \in 1..MaxParts |-> IF i = 2 THEN 0 ELSE 1]

\* ------------------------------------------------------------------- C26
\* C26: an Update from a handle that holds the bucket's current revision
\* succeeds, puts its attributes in place and leaves the other handle as it
\* was, so that of two handles holding the same revision the second to
\* update holds a stale one; an Update from a handle holding a stale
\* revision fails with an update conflict and leaves the bucket as it is;
\* and Attrs leaves the handle holding the current revision, so that its
\* next Update succeeds.
C26_UpdateConflict ==
  [][\A i \in Handles :
       (Len(bk'.log) = Len(bk.log) + 1 /\ bk'.log[Len(bk'.log)].h = i) =>
          LET did == bk'.log[Len(bk'.log)] IN
          /\ (did.op = "update" /\ bk.h[i].rev = bk.srv.rev) =>
                /\ did.res = "ok"
                /\ bk'.srv.info = bk'.at[i] /\ bk'.srv.rev # bk.srv.rev
                /\ \A j \in Handles \ {i} : bk'.h[j] = bk.h[j]
          /\ (did.op = "update" /\ bk.h[i].rev \notin {0, bk.srv.rev}) =>
                did.res = "conflict" /\ bk'.srv = bk.srv
          /\ did.op = "attrs" =>
                bk'.h[i].rev = bk'.srv.rev /\ bk'.srv = bk.srv]_vars

C26_Witness ==
  /\ bk.log = <<[h |-> 1, op |-> "update", res |-> "ok"],
                [h |-> 2, op |-> "update", res |-> "conflict"],
                [h |-> 2, op |-> "attrs", res |-> "ok"],
                [h |-> 2, op |-> "update", res |-> "ok"]>>
  /\ bk.srv = [rev |-> 3, info |-> {"food", "nails"}]

\* ------------------------------------------------------------------- C27
\* C27: Count at time t returns the sum of the increments recorded in the
\* D/r resolution buckets that end at t's bucket.
C27_CountWindow ==
  ctr.op = "count" =>
     LET T == ctr.now \div ctr.res
         from == IF T - ctr.n + 1 > 0 THEN T - ctr.n + 1 ELSE 0
     IN ctr.got = SumTo(ctr.hist, from, T)

\* ------------------------------------------------------------------- C28
\* C28: in whatever order the workers complete, a SHA-1 is recorded only by
\* the worker that holds the chunk, under the number Write gave the chunk
\* and with the SHA-1 of the chunk's bytes; and the array a
\* finish-large-file sends is the recorded SHA-1s in part order from 1,
\* with no gap and no empty entry, one for each chunk cut when no worker
\* failed.
C28_HashesByPartNumber ==
  /\ [](rpc.finish >= 1 =>
          /\ \A i \in 1..Len(sentHashes) : sentHashes[i] # NoHash /\ sentHashes[i] = hashes[i]
          /\ \A i \in 1..MaxParts : i > Len(sentHashes) => hashes[i] = NoHash
          /\ err = Nil => Len(sentHashes) = cidx)
  /\ [][\A i \in 1..MaxParts :
          hashes'[i] # hashes[i] =>
             /\ i <= cidx
             /\ \E ws \in At({"upload"}) :
                  ws.c.id = i /\ hashes'[i] = ws.c.sha1 /\ ws.c.sha1 = SHA1(ws.c.buf)
             /\ \A j \in 1..MaxParts \ {i} : hashes'[j] = hashes[j]]_vars

C28_Witness ==
  /\ hashes[2] = SHA1(ChunkOf(2)) /\ hashes[1] = NoHash
  /\ \E ws \in At({"upload", "reurl"}) : ws.c.id = 1
  /\ Uploads = 2 /\ faults = 0 /\ ~ctxDone

\* ------------------------------------------------------------------- C29
\* C29: when finish-large-file is issued, no worker holds a chunk and every
\* part number 1..n handed to a worker has its SHA-1 recorded.
C29_FinishAfterAllParts ==
  [][rpc'.finish > rpc.finish =>
        /\ CountAt({"upload", "reurl"}) = 0
        /\ \A i \in 1..cidx : hashes[i] # NoHash]_vars

\* ------------------------------------------------------------------- C30
\* C30: with ConcurrentUploads = k, below 1 taken as 1, at most k chunks
\* are held by workers, which with the buffer Write fills makes at most
\* k + 1 chunk buffers; and a Write at the hand-off with no worker
\* receiving stays there with its buffer and starts no other.
C30_BoundedChunks ==
  /\ [](LET k == IF conc < 1 THEN 1 ELSE conc IN
        /\ CountAt({"upload", "reurl"}) <= k
        /\ Cardinality({i \in 1..MaxParts : \E ws \in At({"upload", "reurl"}) : ws.c.id = i}) + 1 <= k + 1
        /\ BagCardinality(pool) <= k)
  /\ [][(pc = "w_send" /\ W("recv", NoChunk) \notin DOMAIN pool) =>
          pc' = "w_send" /\ cbuf' = cbuf /\ cidx' = cidx]_vars

C30_Witness ==
  /\ pc = "w_send" /\ Len(cbuf) = csize /\ cidx = 2
  /\ conc = 2 /\ CountAt({"upload", "reurl"}) = 2 /\ faults = 0

\* ------------------------------------------------------------------- C31
\* C31: every upload attempt, the first and each one after an
\* AttemptNewUpload error, streams the whole of the bytes the SHA-1 was
\* taken of, from their beginning, with their length as content-length:
\* the buffer of upload-file on the simple path, and the chunk of
\* upload-part on the multipart path.
C31_RetrySameBytes ==
  /\ pc = "c_upload" => cbuf = chsh
  /\ \A ws \in At({"upload"}) :
       ws.c.rpos = 0 /\ ws.c.size = Len(ws.c.buf) /\ ws.c.sha1 = SHA1(ws.c.buf)

\* ------------------------------------------------------------------- C32
\* C32: after a chunk hand-off no upload-file is issued; after Close took
\* the simple path no start-large-file, upload-part or finish-large-file is
\* issued; and after Close returned no RPC is issued, by Close or by a
\* worker.
C32_ForwardOnly ==
  [][ /\ cidx >= 1 => (rpc.file = 0 /\ rpc'.file = 0)
      /\ (doneLatch /\ cidx = 0) =>
            /\ rpc'.start = rpc.start /\ rpc'.finish = rpc.finish
            /\ attempts' = attempts /\ cidx' = 0
      /\ Closed =>
            /\ rpc' = rpc /\ attempts' = attempts
            /\ CountAt({"geturl"})' = CountAt({"geturl"}) ]_vars

\* ------------------------------------------------------------------- C33
\* C33: addCall records a call of duration d in bin
\* min(floor(log2(1 + floor(d / 1ms))), numBins - 1), never outside the
\* histogram array; Histogram() is, bin by bin, the number of calls added
\* whose duration belongs to the bin, over all methods and codes, and its
\* sum is Count().
ClaimedBin(d) == Min(Log2(1 + d \div Millisecond), numBins - 1)

C34_SaveBySerial ==
  /\ [](\A i, j \in Savers :
          (i # j /\ grp.sv[i].from = grp.sv[j].from /\ grp.sv[i].ret = "nil"
             /\ grp.sv[j].pc = "done") =>
                grp.sv[j].ret \in {"errUpdateConflict", "error"})
  /\ [][ /\ grp'.srv.serial # grp.srv.serial =>
              \E i \in Savers :
                 /\ grp.sv[i].pc = "update" /\ grp'.sv[i].ret = "nil"
                 /\ grp.sv[i].ai = grp.sv[i].from + 1
                 /\ grp.srv.serial = grp.sv[i].from
                 /\ grp'.srv.serial = grp.srv.serial + 1
         /\ \A i \in Savers :
              (grp.sv[i].pc # "done" /\ grp'.sv[i].pc = "done"
                 /\ grp'.sv[i].ret = "errUpdateConflict") =>
                    grp.srv.serial # grp.sv[i].from ]_vars

C34_Witness ==
  /\ grp.sv[1].from = 0 /\ grp.sv[2].from = 0
  /\ grp.sv[1].ret = "nil" /\ grp.sv[1].tries = 1
  /\ grp.sv[2].ret = "errUpdateConflict" /\ grp.sv[2].tries = 1
  /\ grp.others = 1 /\ grp.faults = 0 /\ grp.srv = [rev |-> 3, serial |-> 1]

\* ------------------------------------------------------------------- C35
\* C35: once a Write has returned an error, no upload-file and no
\* finish-large-file is issued, and the Close that follows returns an
\* error.
C35_NoCommitAfterWriteError ==
  /\ []((Closed /\ wret.err # Nil) => closeRets[1] # Nil)
  /\ [][wret.err # Nil => (rpc'.file = rpc.file /\ rpc'.finish = rpc.finish)]_vars

\* ------------------------------------------------------------------- C36
\* C36: with the context live, neither Write nor Close is at the hand-off of
\* a chunk when every worker has exited: no worker would ever receive, and
\* the call would never return.
C36_HandoffNotStuck == ~(pc \in {"w_send", "c_send"} /\ Live = 0 /\ ~ctxDone /\ started)

\* ------------------------------------------------------------------- C37
\* C37: between Write calls that all returned nil, the bytes written are
\* ChunkSize times the chunks handed off plus the buffer's length, and the
\* buffer is not full; a chunk handed off by Write has ChunkSize bytes, and
\* the one handed off by Close has between 1 and ChunkSize bytes.
C37_ChunkAccounting ==
  /\ []((pc = "ready" /\ ~doneLatch /\ wret.err = Nil) =>
          /\ off = csize * cidx + Len(cbuf)
          /\ Len(cbuf) < csize)
  /\ [][cidx' # cidx =>
          /\ cidx' = cidx + 1
          /\ \E ws \in DOMAIN pool' :
               /\ ws.pc = "upload" /\ ws.c.id = cidx' /\ ws.c.size = Len(cbuf) /\ ws.c.buf = cbuf
          /\ pc = "w_send" => Len(cbuf) = csize
          /\ pc = "c_send" => (Len(cbuf) >= 1 /\ Len(cbuf) <= csize)]_vars

C37_Witness ==
  /\ doneLatch /\ pc = "c_wait" /\ wret = [n |-> 1, err |-> Nil]
  /\ csize = 2 /\ cidx = 2 /\ off = 3
  /\ \E ws \in At({"upload"}) : ws.c.id = 2 /\ ws.c.size = 1

\* ------------------------------------------------------------------- C38
\* C38: in every step of a Write(p) the count it carries grows by the bytes
\* of p the step put in the buffer, and what is left of p shrinks by as
\* much; the n it returns is the bytes of p put in the buffer or handed off,
\* is len(p) when the error is nil, and is less than len(p) only with an
\* error.
Placed == csize * cidx + Len(cbuf)

C38_WriteCount ==
  [][ /\ (pc = "ready" /\ off' > off) =>
           IF pc' = "ready"
           THEN /\ wret'.n = Placed' - Placed
                /\ wret'.err = Nil => wret'.n = off' - off
                /\ wret'.n < off' - off => wret'.err # Nil
           ELSE /\ wacc' = Placed' - Placed
                /\ wacc' + Len(pend') = off' - off
      /\ (pc = "w_top" /\ pc' = "ready") =>
           /\ wret'.n - wacc = Placed' - Placed
           /\ wret'.err = Nil => wret'.n = wacc + Len(pend)
           /\ wret'.n < wacc + Len(pend) => wret'.err # Nil
      /\ (pc = "w_top" /\ pc' = "w_send") =>
           /\ wacc' - wacc = Placed' - Placed
           /\ wacc' + Len(pend') = wacc + Len(pend)
      /\ (pc = "w_send" /\ pc' = "w_top") =>
           /\ Placed' = Placed /\ wacc' = wacc /\ pend' = pend ]_vars

C38_Witness ==
  /\ pc = "ready" /\ ~doneLatch /\ csize = 1 /\ cidx = 2 /\ off = 3
  /\ wret = [n |-> 2, err |-> ErrOf("b2_upload_part", 1)]

\* C39: when the re-authorization inside a withReauth invocation fails, the
\* invocation returns the re-authorization's error having issued the RPC once
\* only; and the credentials beRoot holds, which every re-authorization sends,
\* are those of the last authorize-account that succeeded.
C39_ReauthFailureAndCredentials ==
  /\ []((rret.set /\ rret.lvl.reauths = 1 /\ rret.lvl.auths = rret.lvl.authFails)
          => (rret.lvl.attempts = 1 /\ rret.err = CtxErr))
  /\ [](cred.stored = cred.ok)
  /\ [][bauths' # bauths => cred'.used = cred.ok]_vars
  /\ [][(bpc = "auth_wait" /\ rret' # rret) => (battempts' = battempts /\ rret'.err = CtxErr)]_vars
C39_Witness ==
  /\ rret.set /\ rret.err = CtxErr
  /\ rret.lvl.reauths = 1 /\ rret.lvl.auths >= 1 /\ rret.lvl.attempts = 1
  /\ cred.last # NoCreds /\ ~cred.lastOk /\ cred.last # cred.ok
  /\ cred.used = cred.ok

====
